---------------------------- MODULE Spec2Model ----------------------------
(***************************************************************************)
(* danmaku-kit: the per-platform segmented fetch / decode / normalize      *)
(* pipeline (providers Bilibili, IQiYi, Bahamut).                          *)
(*                                                                         *)
(* Text is modelled as a sequence of characters, each character a          *)
(* one-element token such as "a", ",", "5" ("U54C8" stands for the single  *)
(* character U+54C8).  A JavaScript number is the record                   *)
(* [nan, neg, mant, scale] standing for (-1)^neg * mant / 10^scale.        *)
(***************************************************************************)
EXTENDS Integers, Sequences, FiniteSets, TLC

VARIABLES
    provider,   \* which provider's fetchDanmaku runs: "bilibili" or "iqiyi"
    episode,    \* what the episode-metadata endpoint answers (input)
    net,        \* what the segment endpoint answers for each segment index (input)
    pc,         \* "resolving", "fetching", "done" (fulfilled) or "rejected"
    info,       \* the resolved {id, duration}, NoInfo until resolution succeeds
    plan,       \* the array of segment indices handed to parallel()
    work,       \* parallel(): the items not yet taken by a worker
    workers,    \* parallel(): one record per worker (queue processor)
    fetchLog,   \* every segment index a fetch was started for, in start order
    result,     \* the list fetchDanmaku resolves with
    rec,        \* normalizer: the raw source record under normalization (input)
    out,        \* normalizer: the canonical comment produced for rec
    calls,      \* two fetchDanmaku calls under way at once, one record each
    api,        \* the HTTP API: the request in hand, the registry, the response
    bahamut     \* Bahamut: the search or fetchDanmaku call under way

vars == <<provider, episode, net, pc, info, plan, work, workers, fetchLog,
          result, rec, out, calls, api, bahamut>>

---------------------------------------------------------------------------
(* Bounds of the model.                                                    *)

\* Episode durations cover 0 .. MaxWindows whole segment windows.
MaxWindows == 2
\* The pool is also run with the concurrency limit plus PoolExtra segments.
PoolExtra == 1
\* A Bahamut danmu list holds up to MaxDanmu entries.
MaxDanmu == 2

---------------------------------------------------------------------------
(* Text helpers.                                                           *)

DigitChars == <<"0", "1", "2", "3", "4", "5", "6", "7", "8", "9">>

IsDigit(c) == \E i \in 1..10 : DigitChars[i] = c

DigitVal(c) == (CHOOSE i \in 1..10 : DigitChars[i] = c) - 1

\* Number.prototype.toString for a non-negative integer.
RECURSIVE Digits(_)
Digits(n) ==
    IF n < 10 THEN <<DigitChars[n + 1]>>
    ELSE Digits(n \div 10) \o <<DigitChars[(n % 10) + 1]>>

RECURSIVE Pow10(_)
Pow10(k) == IF k = 0 THEN 1 ELSE 10 * Pow10(k - 1)

\* Array.prototype.join(',') over parts that are already strings.
RECURSIVE JoinComma(_)
JoinComma(parts) ==
    IF Len(parts) = 0 THEN <<>>
    ELSE IF Len(parts) = 1 THEN parts[1]
    ELSE parts[1] \o <<",">> \o JoinComma(Tail(parts))

\* String.prototype.split(',').length
FieldCount(s) == 1 + Cardinality({i \in 1..Len(s) : s[i] = ","})

\* String.prototype.split(',')[k]  (k counted from 1)
RECURSIVE SplitComma(_)
SplitComma(s) ==
    IF \A i \in 1..Len(s) : s[i] # "," THEN <<s>>
    ELSE LET j == CHOOSE i \in 1..Len(s) :
                      s[i] = "," /\ \A k \in 1..(i - 1) : s[k] # ","
         IN  <<SubSeq(s, 1, j - 1)>> \o SplitComma(SubSeq(s, j + 1, Len(s)))

IsSpace(c) == c = " "

\* String.prototype.trim
RECURSIVE TrimStart(_)
TrimStart(s) ==
    IF Len(s) > 0 /\ IsSpace(s[1]) THEN TrimStart(Tail(s)) ELSE s

RECURSIVE TrimEnd(_)
TrimEnd(s) ==
    IF Len(s) > 0 /\ IsSpace(s[Len(s)]) THEN TrimEnd(SubSeq(s, 1, Len(s) - 1))
    ELSE s

Trim(s) == TrimEnd(TrimStart(s))


\* String(n) for an integer n (a property key, a joined array element).
IntToText(n) == IF n < 0 THEN <<"-">> \o Digits(0 - n) ELSE Digits(n)

---------------------------------------------------------------------------
(* JavaScript numbers: [nan, neg, mant, scale] is (-1)^neg * mant/10^scale. *)

NaN == [nan |-> TRUE, neg |-> FALSE, mant |-> 0, scale |-> 0]

Num(neg, mant, scale) == [nan |-> FALSE, neg |-> neg, mant |-> mant, scale |-> scale]

RECURSIVE DigitsVal(_)
DigitsVal(s) ==
    IF Len(s) = 0 THEN 0
    ELSE 10 * DigitsVal(SubSeq(s, 1, Len(s) - 1)) + DigitVal(s[Len(s)])

AllDigits(s) == \A i \in 1..Len(s) : IsDigit(s[i])

\* Number(string) on the StrDecimalLiteral forms  [+-] digits [. digits]
\* (surrounding white space stripped, "" is 0, anything else NaN).  Exponents,
\* hex literals and "Infinity" are not in the model's inputs.
NumberOf(str) ==
    LET s    == Trim(str)
        sgn  == Len(s) > 0 /\ s[1] \in {"+", "-"}
        neg  == Len(s) > 0 /\ s[1] = "-"
        body == IF sgn THEN Tail(s) ELSE s
        dots == {i \in 1..Len(body) : body[i] = "."}
        d    == IF dots = {} THEN Len(body) + 1 ELSE CHOOSE i \in dots : TRUE
        ip   == SubSeq(body, 1, d - 1)
        fp   == SubSeq(body, d + 1, Len(body))
    IN  IF Len(s) = 0 THEN Num(FALSE, 0, 0)
        ELSE IF Cardinality(dots) <= 1 /\ AllDigits(ip) /\ AllDigits(fp)
                /\ Len(ip) + Len(fp) > 0
             THEN Num(neg, DigitsVal(ip \o fp), Len(fp))
             ELSE NaN

HexChars == <<"0", "1", "2", "3", "4", "5", "6", "7", "8", "9",
              "a", "b", "c", "d", "e", "f">>
HexUpper == <<"0", "1", "2", "3", "4", "5", "6", "7", "8", "9",
              "A", "B", "C", "D", "E", "F">>

IsHex(c) == \E i \in 1..16 : HexChars[i] = c \/ HexUpper[i] = c

HexVal(c) == (CHOOSE i \in 1..16 : HexChars[i] = c \/ HexUpper[i] = c) - 1

RECURSIVE HexPrefix(_)
HexPrefix(s) ==
    IF Len(s) > 0 /\ IsHex(s[1]) THEN <<s[1]>> \o HexPrefix(Tail(s)) ELSE <<>>

RECURSIVE HexDigitsVal(_)
HexDigitsVal(s) ==
    IF Len(s) = 0 THEN 0
    ELSE 16 * HexDigitsVal(SubSeq(s, 1, Len(s) - 1)) + HexVal(s[Len(s)])

\* Number.parseInt(string, 16): leading white space and a sign are skipped, then
\* an optional 0x / 0X, then the longest run of hex digits; none gives NaN.
ParseInt16(str) ==
    LET s    == TrimStart(str)
        sgn  == Len(s) > 0 /\ s[1] \in {"+", "-"}
        neg  == Len(s) > 0 /\ s[1] = "-"
        b0   == IF sgn THEN Tail(s) ELSE s
        body == IF Len(b0) >= 2 /\ b0[1] = "0" /\ b0[2] \in {"x", "X"}
                THEN SubSeq(b0, 3, Len(b0)) ELSE b0
        run  == HexPrefix(body)
    IN  IF Len(run) = 0 THEN NaN ELSE Num(neg, HexDigitsVal(run), 0)

\* String(number) for NaN and for integers, as Array.prototype.join prints them.
NumberToText(x) ==
    IF x.nan THEN <<"N", "a", "N">>
    ELSE IF x.neg /\ x.mant > 0 THEN <<"-">> \o Digits(x.mant)
    ELSE Digits(x.mant)

RECURSIVE Pow2Mod(_, _)
Pow2Mod(k, m) == IF k = 0 THEN 1 % m ELSE (2 * Pow2Mod(k - 1, m)) % m

RECURSIVE Pow2(_)
Pow2(k) == IF k = 0 THEN 1 ELSE 2 * Pow2(k - 1)

RECURSIVE Pow5(_)
Pow5(k) == IF k = 0 THEN 1 ELSE 5 * Pow5(k - 1)

\* floor(log2(a / b)) for a, b > 0.
RECURSIVE Log2Up(_, _, _)
Log2Up(a, b, k) == IF a \div Pow2(k + 1) >= b THEN Log2Up(a, b, k + 1) ELSE k

RECURSIVE Log2Down(_, _, _)
Log2Down(a, b, j) == IF a * Pow2(j) >= b THEN 0 - j ELSE Log2Down(a, b, j + 1)

FloorLog2(a, b) == IF a >= b THEN Log2Up(a, b, 0) ELSE Log2Down(a, b, 1)

\* Whether the binary double nearest to mant/10^scale (mant > 0) is not below
\* it: the double is N / 2^e with N the integer nearest to mant * 2^e / 10^scale
\* and 2^52 <= N < 2^53, so it is below exactly when the remainder of
\* mant * 2^(e - scale) modulo 5^scale is positive and less than half of 5^scale.
DoubleNotBelow(x) ==
    LET e   == 52 - FloorLog2(x.mant, Pow10(x.scale))
        m5  == Pow5(x.scale)
        rho == ((x.mant % m5) * Pow2Mod(e - x.scale, m5)) % m5
    IN  rho = 0 \/ 2 * rho > m5

\* The number n of hundredths for which n/100 is nearest to the double of
\* mant/10^scale, the larger n when two are equally near.  The double differs
\* from the decimal by far less than a thousandth, so only a decimal lying
\* exactly halfway between two hundredths is decided by the double's side.
Hundredths(x) ==
    IF x.scale <= 2 THEN x.mant * Pow10(2 - x.scale)
    ELSE LET unit == Pow10(x.scale - 2)
             q    == x.mant \div unit
             r    == x.mant % unit
         IN  IF 2 * r > unit THEN q + 1
             ELSE IF 2 * r < unit THEN q
             ELSE IF DoubleNotBelow(x) THEN q + 1 ELSE q

\* Number.prototype.toFixed(2)
ToFixed2(x) ==
    IF x.nan THEN <<"N", "a", "N">>
    ELSE LET n  == Hundredths(x)
             ds == Digits(n)
             p  == IF Len(ds) < 3 THEN SubSeq(<<"0", "0">>, 1, 3 - Len(ds)) \o ds
                   ELSE ds
             k  == Len(p)
         IN  (IF x.neg /\ x.mant > 0 THEN <<"-">> ELSE <<>>)
             \o SubSeq(p, 1, k - 2) \o <<".">> \o SubSeq(p, k - 1, k)

---------------------------------------------------------------------------
(* Position tables: a plain object literal read with  positions[key] || 1.  *)
(* A key the literal does not own is looked up on Object.prototype, whose  *)
(* members are truthy, so  || 1  does not replace them.                    *)

KeyConstructor == <<"c", "o", "n", "s", "t", "r", "u", "c", "t", "o", "r">>
KeyToString    == <<"t", "o", "S", "t", "r", "i", "n", "g">>
KeyProto       == <<"_", "_", "p", "r", "o", "t", "o", "_", "_">>

\* The Object.prototype members a position key of the model can name.
ObjectPrototypeKeys == {KeyConstructor, KeyToString, KeyProto}

FunctionWord == <<"f", "u", "n", "c", "t", "i", "o", "n", " ">>
NativeBody   == <<"(", ")", " ", "{", " ", "[", "n", "a", "t", "i", "v", "e", " ",
                  "c", "o", "d", "e", "]", " ", "}">>
ObjectWord   == <<"O", "b", "j", "e", "c", "t">>

\* String(v) of the inherited member v, as join(',') prints it.
InheritedText(key) ==
    IF key = KeyProto
    THEN <<"[", "o", "b", "j", "e", "c", "t", " ">> \o ObjectWord \o <<"]">>
    ELSE FunctionWord \o (IF key = KeyConstructor THEN ObjectWord ELSE key)
         \o NativeBody

\* positions[key] || 1, printed; table is a function from the own keys (text)
\* to the numbers the literal gives them (all non-zero).
LookupOr1(table, key) ==
    IF key \in DOMAIN table THEN Digits(table[key])
    ELSE IF key \in ObjectPrototypeKeys THEN InheritedText(key)
    ELSE <<"1">>

BilibiliPositions == (<<"4">> :> 4) @@ (<<"5">> :> 5)

IQiYiPositions == (<<"0">> :> 1) @@ (<<"1">> :> 5) @@ (<<"2">> :> 4)

BahamutPositions == (<<"1">> :> 5) @@ (<<"2">> :> 4)

---------------------------------------------------------------------------
(* Bilibili: a decoded DanmakuElem is [content, progress, color, position, *)
(* id] with content a text and the rest integers.                          *)

\* Mutant of BilibiliFormatDanmakuMeta: progress printed without the division
\* by 1000.
BilibiliFormatDanmakuMetaMs(d) ==
    JoinComma(<< ToFixed2(Num(d.progress < 0,
                              IF d.progress < 0 THEN 0 - d.progress ELSE d.progress,
                              0)),
                 LookupOr1(BilibiliPositions, IntToText(d.position)),
                 IntToText(d.color),
                 IntToText(d.id) >>)

BilibiliFormatDanmakuMeta(d) ==
    JoinComma(<< ToFixed2(Num(d.progress < 0,
                              IF d.progress < 0 THEN 0 - d.progress ELSE d.progress,
                              3)),
                 LookupOr1(BilibiliPositions, IntToText(d.position)),
                 IntToText(d.color),
                 IntToText(d.id) >>)

\* Mutant of BilibiliNormalize: the records are mapped without the filter.
BilibiliNormalizeUnfiltered(elems) ==
    [i \in 1..Len(elems) |->
        [text |-> elems[i].content, meta |-> BilibiliFormatDanmakuMeta(elems[i])]]

\* fetchDanmaku's  .filter(elem => elem.content).map(elem => ({text, meta}))
BilibiliNormalize(elems) ==
    LET keep == SelectSeq(elems, LAMBDA e : e.content # <<>>)
    IN  [i \in 1..Len(keep) |->
            [text |-> keep[i].content, meta |-> BilibiliFormatDanmakuMeta(keep[i])]]

---------------------------------------------------------------------------
(* IQiYi: a bulletInfo block is the sequence of its <tag>value</tag>        *)
(* elements, each [tag, val]; values hold no '<' and no line break.        *)

Undefined == [has |-> FALSE, v |-> <<>>]

\* getTag: the first <tag>...</tag> of the block, or undefined.
GetTag(bullet, tag) ==
    LET hits == {i \in 1..Len(bullet) : bullet[i].tag = tag}
    IN  IF hits = {} THEN Undefined
        ELSE [has |-> TRUE,
              v   |-> bullet[CHOOSE i \in hits : \A j \in hits : i <= j].val]

\* getTag(tag)?.trim() || dflt
TrimmedOr(m, dflt) == IF m.has /\ Trim(m.v) # <<>> THEN Trim(m.v) ELSE dflt

\* getTag(tag) || dflt
ValueOr(m, dflt) == IF m.has /\ m.v # <<>> THEN m.v ELSE dflt

NameIQiYi == <<"i", "q", "i", "y", "i">>

DefaultColor == <<"1", "6", "7", "7", "7", "2", "1", "5">>

\* One element of parseDanmakuXML's result.
IQiYiParseBullet(bullet) ==
    [content  |-> TrimmedOr(GetTag(bullet, "content"), <<>>),
     user     |-> TrimmedOr(GetTag(bullet, "name"), NameIQiYi),
     time     |-> ValueOr(GetTag(bullet, "showTime"), <<"0">>),
     color    |-> ValueOr(GetTag(bullet, "color"), DefaultColor),
     position |-> ValueOr(GetTag(bullet, "position"), <<"0">>)]

ParseDanmakuXML(bullets) == [i \in 1..Len(bullets) |-> IQiYiParseBullet(bullets[i])]

IQiYiFormatDanmakuMeta(d) ==
    JoinComma(<< ToFixed2(NumberOf(d.time)),
                 LookupOr1(IQiYiPositions, d.position),
                 NumberToText(ParseInt16(d.color)),
                 d.user >>)

\* Mutant of IQiYiNormalize: blocks with empty content are dropped.
IQiYiNormalizeDropsEmpty(bullets) ==
    LET ds == SelectSeq(ParseDanmakuXML(bullets), LAMBDA d : d.content # <<>>)
    IN  [i \in 1..Len(ds) |->
            [text |-> ds[i].content, meta |-> IQiYiFormatDanmakuMeta(ds[i])]]

\* fetchDanmaku's  parseDanmakuXML(xml).map(d => ({text, meta}))
IQiYiNormalize(bullets) ==
    LET ds == ParseDanmakuXML(bullets)
    IN  [i \in 1..Len(ds) |->
            [text |-> ds[i].content, meta |-> IQiYiFormatDanmakuMeta(ds[i])]]

---------------------------------------------------------------------------
(* Bahamut: a danmu entry is [text, color, position, time, userid] with    *)
(* color "#RRGGBB", time in tenths of a second, userid a text.             *)

BahamutFormatDanmakuMeta(d) ==
    JoinComma(<< ToFixed2(Num(d.time < 0, IF d.time < 0 THEN 0 - d.time ELSE d.time, 1)),
                 LookupOr1(BahamutPositions, IntToText(d.position)),
                 NumberToText(ParseInt16(IF Len(d.color) = 0 THEN <<>> ELSE Tail(d.color))),
                 d.userid >>)

BahamutNormalize(danmu) ==
    [i \in 1..Len(danmu) |->
        [text |-> danmu[i].text, meta |-> BahamutFormatDanmakuMeta(danmu[i])]]

---------------------------------------------------------------------------
(* Inputs of one fetchDanmaku call.                                        *)

Providers == {"bilibili", "iqiyi"}

BilibiliConcurrency == 3

IQiYiConcurrency == 9

Concurrency(p) == IF p = "bilibili" THEN BilibiliConcurrency ELSE IQiYiConcurrency

\* The length of one segment window in the unit the provider's duration has:
\* milliseconds on Bilibili (duration / 1000 / 360), seconds on IQiYi (60 * 5).
Window(p) == IF p = "bilibili" THEN 1000 * 360 ELSE 60 * 5

\* What the metadata endpoint answers: the request fails ("error"), the answer
\* holds no record for the episode ("none"), or it holds a record whose id
\* (cid / tvId) and duration (duration / durationSec) may each be missing.
EpisodeError == [kind |-> "error", hasId |-> FALSE, hasDur |-> FALSE, dur |-> 0]
EpisodeNone  == [kind |-> "none", hasId |-> FALSE, hasDur |-> FALSE, dur |-> 0]
EpisodeRec(hasId, hasDur, dur) ==
    [kind |-> "rec", hasId |-> hasId, hasDur |-> hasDur, dur |-> dur]

\* Durations of 0 .. MaxWindows whole windows, and each plus a tenth of one.
SmallDurations(p) ==
    UNION {{k * Window(p), k * Window(p) + Window(p) \div 10} : k \in 0..MaxWindows}

\* The duration that makes the plan PoolExtra segments longer than the limit.
PoolDuration(p) ==
    IF p = "bilibili" THEN (Concurrency(p) + PoolExtra - 1) * Window(p)
    ELSE (Concurrency(p) + PoolExtra) * Window(p)

Episodes(p) ==
    {EpisodeError, EpisodeNone}
    \cup {EpisodeRec(TRUE, TRUE, d) : d \in SmallDurations(p) \cup {PoolDuration(p)}}
    \cup {EpisodeRec(FALSE, TRUE, Window(p)), EpisodeRec(TRUE, FALSE, 0),
          EpisodeRec(FALSE, FALSE, 0)}

\* What the segment endpoint answers for one segment: the request fails
\* ("fail"), or it delivers a payload: "corrupt" cannot be decoded (inflate or
\* fromBinary throws), "empty" decodes to nothing, "A" and "B" hold comments.
Responses == {"fail", "corrupt", "empty", "A", "B"}

BilibiliElems(payload) ==
    IF payload = "A"
    THEN << [content |-> <<"a", "1">>, progress |-> 30500, color |-> 16711680,
             position |-> 5, id |-> 42],
            [content |-> <<"a", "2">>, progress |-> 1000, color |-> 16777215,
             position |-> 1, id |-> 43] >>
    ELSE IF payload = "B"
    THEN << [content |-> <<>>, progress |-> 0, color |-> 255, position |-> 4, id |-> 44],
            [content |-> <<"b", "1">>, progress |-> 250, color |-> 255,
             position |-> 4, id |-> 45] >>
    ELSE <<>>

IQiYiBullets(xml) ==
    IF xml = "A"
    THEN << << [tag |-> "content", val |-> <<"a", "1">>],
               [tag |-> "showTime", val |-> <<"1", "2", ".", "5">>],
               [tag |-> "color", val |-> <<"F", "F", "0", "0", "0", "0">>],
               [tag |-> "position", val |-> <<"2">>],
               [tag |-> "name", val |-> <<"u", "1">>] >>,
            << [tag |-> "content", val |-> <<"a", "2">>],
               [tag |-> "showTime", val |-> <<"3">>],
               [tag |-> "color", val |-> <<"f", "f">>],
               [tag |-> "position", val |-> <<"0">>] >> >>
    ELSE IF xml = "B"
    THEN << << [tag |-> "showTime", val |-> <<"7">>],
               [tag |-> "color", val |-> <<"f", "f">>],
               [tag |-> "position", val |-> <<"1">>],
               [tag |-> "name", val |-> <<"u", "2">>] >> >>
    ELSE <<>>

---------------------------------------------------------------------------
(* fetchEpisodeInfo and the segment plan.                                  *)

NoInfo == [ok |-> FALSE, id |-> "", duration |-> 0]

\* Mutant of BilibiliFetchEpisodeInfo: a missing cid is not checked.
BilibiliFetchEpisodeInfoNoCidCheck(ep) ==
    IF ep.kind # "rec" THEN NoInfo
    ELSE IF ~ep.hasDur \/ ep.dur = 0 THEN NoInfo
    ELSE [ok |-> TRUE, id |-> "cid", duration |-> ep.dur]

\* The resolved {cid | vid, duration}, or ok = FALSE where the code throws.
BilibiliFetchEpisodeInfo(ep) ==
    IF ep.kind # "rec" THEN NoInfo
    ELSE IF ~ep.hasId \/ ~ep.hasDur \/ ep.dur = 0 THEN NoInfo
    ELSE [ok |-> TRUE, id |-> "cid", duration |-> ep.dur]

IQiYiFetchEpisodeInfo(ep) ==
    IF ep.kind # "rec" THEN NoInfo
    ELSE [ok |-> TRUE,
          id |-> IF ep.hasId THEN "tvId" ELSE "episodeId",
          duration |-> IF ep.hasDur THEN ep.dur ELSE 0]

FetchEpisodeInfo(p, ep) ==
    IF p = "bilibili" THEN BilibiliFetchEpisodeInfo(ep) ELSE IQiYiFetchEpisodeInfo(ep)

\* Array.from({ length: n }, (_, i) => i + 1)
ArrayFrom1(n) == [i \in 1..n |-> i]

\* Math.floor(duration / 1000 / 360) + 1
BilibiliPlanLength(duration) == (duration \div (1000 * 360)) + 1

\* Math.ceil(duration / (60 * 5))
IQiYiPlanLength(duration) == (duration + (60 * 5) - 1) \div (60 * 5)

PlanSegments(p, duration) ==
    ArrayFrom1(IF p = "bilibili" THEN BilibiliPlanLength(duration)
               ELSE IQiYiPlanLength(duration))

---------------------------------------------------------------------------
(* radashi's parallel(limit, array, func): clamp(limit, 1, array.length)   *)
(* queue processors; each pops the last item left, awaits func(item),      *)
(* pushes {index, result} on its own list and pops again; when all have    *)
(* ended their lists are flattened and sorted by index.                    *)

Min(a, b) == IF a < b THEN a ELSE b

\* Mutant of WorkerCount: one processor per item, the limit ignored.
WorkerCountUnbounded(limit, n) == n

\* Mutant of WorkerCount: a single processor works the queue.
WorkerCountSingle(limit, n) == IF n = 0 THEN 0 ELSE 1

\* How many queue processors parallel() starts for n items.
WorkerCount(limit, n) == IF n = 0 THEN 0 ELSE Min(limit, n)

\* array.map((item, index) => ({ index, item }))
WorkItems(array) == [i \in 1..Len(array) |-> [index |-> i, item |-> array[i]]]

\* The processors right after parallel() is called: processor k has popped the
\* k-th item from the end and its fetch is under way.
InitialWorkers(limit, items) ==
    LET n == Len(items)
    IN  [k \in 1..WorkerCount(limit, n) |->
            [phase |-> "fetch", index |-> items[n + 1 - k].index,
             item |-> items[n + 1 - k].item, results |-> <<>>]]

\* Mutant of InitialWork: the items the processors took stay in the queue.
InitialWorkKeepsTaken(limit, items) == items

\* The queue right after parallel() is called: the items no processor took.
InitialWork(limit, items) ==
    SubSeq(items, 1, Len(items) - WorkerCount(limit, Len(items)))

InitialLog(limit, items) ==
    [k \in 1..WorkerCount(limit, Len(items)) |-> items[Len(items) + 1 - k].item]

RECURSIVE Flat(_)
Flat(lists) == IF Len(lists) = 0 THEN <<>> ELSE lists[1] \o Flat(Tail(lists))

\* Mutant of SortByIndex: the flattened lists are left in processor order.
SortByIndexSkipped(list) == list

\* sort(list, r => r.index): ascending by index.
RECURSIVE SortByIndex(_)
SortByIndex(list) ==
    IF Len(list) = 0 THEN <<>>
    ELSE LET m == CHOOSE i \in 1..Len(list) :
                      \A j \in 1..Len(list) : list[i].index <= list[j].index
         IN  <<list[m]>>
             \o SortByIndex(SubSeq(list, 1, m - 1) \o SubSeq(list, m + 1, Len(list)))

\* What parallel() resolves with once every processor has ended.
ParallelResults(ws) ==
    LET sorted == SortByIndex(Flat([k \in 1..Len(ws) |-> ws[k].results]))
    IN  [i \in 1..Len(sorted) |-> sorted[i].result]

\* The segment fetches in flight: started and not yet settled.
InFlight == {k \in 1..Len(workers) : workers[k].phase = "fetch"}

---------------------------------------------------------------------------
(* fetchDanmaku's tail: filter the segment results, decode, normalize.     *)

\* Bilibili: .filter(buffer => !!buffer); a failed segment is undefined.
BilibiliKept(buffers) == SelectSeq(buffers, LAMBDA b : b # "undefined")

\* parseDanmakuProtobuf throws on a buffer that is no DanmakuSegment message.
BilibiliDecodeThrows(buffers) ==
    \E i \in 1..Len(BilibiliKept(buffers)) : BilibiliKept(buffers)[i] = "corrupt"

BilibiliComments(buffers) ==
    LET kept == BilibiliKept(buffers)
    IN  Flat([i \in 1..Len(kept) |-> BilibiliNormalize(BilibiliElems(kept[i]))])

\* IQiYi: .filter(xml => !isEmpty(xml)); a failed segment is [], and an
\* empty decompressed text is empty too.
IQiYiKept(xmls) == SelectSeq(xmls, LAMBDA x : x # "[]" /\ x # "empty")

IQiYiComments(xmls) ==
    LET kept == IQiYiKept(xmls)
    IN  Flat([i \in 1..Len(kept) |-> IQiYiNormalize(IQiYiBullets(kept[i]))])

---------------------------------------------------------------------------
(* The call as a state machine.                                            *)

NoRec == [none |-> TRUE]

\* No request is in hand.
NoApi == [route |-> "none"]

\* No Bahamut call is under way.
NoBahamut == [method |-> "none"]

\* The segment answers of a call over n segments: every combination for the
\* short plans, three patterns for the plans longer than the limit.
Nets(n) ==
    IF n <= MaxWindows + 1 THEN [1..n -> Responses]
    ELSE {[i \in 1..n |-> "fail"],
          [i \in 1..n |-> IF i % 5 = 0 THEN "A" ELSE IF i % 5 = 2 THEN "corrupt" ELSE "fail"],
          [i \in 1..n |-> IF i % 4 = 1 THEN "B" ELSE "fail"]}

Init ==
    /\ provider \in Providers
    /\ episode \in Episodes(provider)
    /\ LET r == FetchEpisodeInfo(provider, episode)
       IN  net \in Nets(IF r.ok THEN Len(PlanSegments(provider, r.duration)) ELSE 0)
    /\ pc = "resolving"
    /\ info = NoInfo
    /\ plan = <<>>
    /\ work = <<>>
    /\ workers = <<>>
    /\ fetchLog = <<>>
    /\ result = <<>>
    /\ rec = NoRec
    /\ out = NoRec
    /\ calls = <<>>
    /\ api = NoApi
    /\ bahamut = NoBahamut

\* await this.fetchEpisodeInfo(episodeId) settles: a throw rejects the call,
\* otherwise parallel() is called and its processors start their first fetch.
ResolveEpisode ==
    /\ pc = "resolving"
    /\ LET r == FetchEpisodeInfo(provider, episode)
       IN  IF ~r.ok
           THEN /\ pc' = "rejected"
                /\ UNCHANGED <<info, plan, work, workers, fetchLog>>
           ELSE LET items == WorkItems(PlanSegments(provider, r.duration))
                IN  /\ pc' = "fetching"
                    /\ info' = r
                    /\ plan' = PlanSegments(provider, r.duration)
                    /\ workers' = InitialWorkers(Concurrency(provider), items)
                    /\ work' = InitialWork(Concurrency(provider), items)
                    /\ fetchLog' = InitialLog(Concurrency(provider), items)
    /\ UNCHANGED <<provider, episode, net, result, rec, out, calls, api, bahamut>>

\* A processor whose task has returned value: it pushes the value on its
\* list, then pops the next item (the last one left in the queue) and starts
\* its fetch, or ends when none is left.
PopNext(w, queue, value) ==
    LET done == Append(w.results, [index |-> w.index, result |-> value])
    IN  IF Len(queue) = 0
        THEN [worker  |-> [phase |-> "end", index |-> 0, item |-> 0, results |-> done],
              work    |-> queue,
              started |-> <<>>]
        ELSE LET next == queue[Len(queue)]
             IN  [worker  |-> [phase |-> "fetch", index |-> next.index,
                               item |-> next.item, results |-> done],
                  work    |-> SubSeq(queue, 1, Len(queue) - 1),
                  started |-> <<next.item>>]

\* Processor k's task has returned value.
TaskDone(k, value) ==
    LET r == PopNext(workers[k], work, value)
    IN  /\ workers' = [workers EXCEPT ![k] = r.worker]
        /\ work' = r.work
        /\ fetchLog' = fetchLog \o r.started

\* The ofetch of processor k's segment settles; a request the network never
\* answers ("hang") does not.
FetchSettle(k) ==
    /\ pc = "fetching"
    /\ workers[k].phase = "fetch"
    /\ net[workers[k].item] # "hang"
    /\ LET resp == net[workers[k].item]
       IN  IF provider = "bilibili"
           THEN TaskDone(k, IF resp = "fail" THEN "undefined" ELSE resp)
           ELSE IF resp = "fail"
                THEN TaskDone(k, "[]")
                ELSE /\ workers' = [workers EXCEPT ![k].phase = "inflate"]
                     /\ UNCHANGED <<work, fetchLog>>
    /\ UNCHANGED <<provider, episode, net, pc, info, plan, result, rec, out, calls,
                   api, bahamut>>

\* IQiYi: decompressDanmaku of processor k's buffer settles.
InflateSettle(k) ==
    /\ pc = "fetching"
    /\ workers[k].phase = "inflate"
    /\ LET resp == net[workers[k].item]
       IN  TaskDone(k, IF resp = "corrupt" THEN "[]" ELSE resp)
    /\ UNCHANGED <<provider, episode, net, pc, info, plan, result, rec, out, calls,
                   api, bahamut>>

\* Every processor has ended: parallel() resolves and fetchDanmaku filters,
\* decodes and normalizes what it got.
Finish ==
    /\ pc = "fetching"
    /\ \A k \in 1..Len(workers) : workers[k].phase = "end"
    /\ LET got == ParallelResults(workers)
       IN  IF provider = "bilibili"
           THEN IF BilibiliDecodeThrows(got)
                THEN pc' = "rejected" /\ result' = result
                ELSE pc' = "done" /\ result' = BilibiliComments(got)
           ELSE pc' = "done" /\ result' = IQiYiComments(got)
    /\ UNCHANGED <<provider, episode, net, info, plan, work, workers, fetchLog,
                   rec, out, calls, api, bahamut>>

Next ==
    \/ ResolveEpisode
    \/ \E k \in 1..Len(workers) : FetchSettle(k)
    \/ \E k \in 1..Len(workers) : InflateSettle(k)
    \/ Finish

Spec == Init /\ [][Next]_vars

---------------------------------------------------------------------------
(* The call with a segment request that may never be answered, under the   *)
(* event loop's scheduling.                                                *)

\* What the segment endpoint does for one segment when it may also leave the
\* request unanswered for ever ("hang").
LiveResponses == {"fail", "corrupt", "A", "hang"}

\* The segment answers with at most one request left unanswered: every
\* combination for the short plans, three patterns for the longer ones.
NetsLive(n) ==
    IF n <= MaxWindows + 1
    THEN {f \in [1..n -> LiveResponses] : Cardinality({i \in 1..n : f[i] = "hang"}) <= 1}
    ELSE {[i \in 1..n |-> "fail"],
          [i \in 1..n |-> IF i = n THEN "hang" ELSE "A"],
          [i \in 1..n |-> IF i = 1 THEN "hang" ELSE "fail"]}

EpisodesLive(p) ==
    {EpisodeError}
    \cup {EpisodeRec(TRUE, TRUE, k * Window(p)) : k \in 1..MaxWindows}
    \cup (IF p = "bilibili" THEN {EpisodeRec(TRUE, TRUE, PoolDuration(p))} ELSE {})

InitLive ==
    /\ provider \in Providers
    /\ episode \in EpisodesLive(provider)
    /\ LET r == FetchEpisodeInfo(provider, episode)
       IN  net \in NetsLive(IF r.ok THEN Len(PlanSegments(provider, r.duration)) ELSE 0)
    /\ pc = "resolving"
    /\ info = NoInfo
    /\ plan = <<>>
    /\ work = <<>>
    /\ workers = <<>>
    /\ fetchLog = <<>>
    /\ result = <<>>
    /\ rec = NoRec
    /\ out = NoRec
    /\ calls = <<>>
    /\ api = NoApi
    /\ bahamut = NoBahamut

\* The step of Finish as pc shows it: parallel() has resolved and the call
\* settles.  Finish is the only action that takes this step and it can take
\* it whenever every processor has ended.
CallSettles ==
    /\ pc = "fetching"
    /\ \A k \in 1..Len(workers) : workers[k].phase = "end"
    /\ pc' \in {"done", "rejected"}

\* The event loop runs the continuation of every promise that has settled,
\* and every request other than a "hang" one is answered or fails in the end:
\* no step that stays possible is put off for ever.
SpecLive ==
    /\ InitLive
    /\ [][Next]_vars
    /\ WF_vars(ResolveEpisode)
    /\ WF_vars(\E k \in 1..Len(workers) : FetchSettle(k))
    /\ WF_vars(\E k \in 1..Len(workers) : InflateSettle(k))
    /\ WF_pc(CallSettles)

---------------------------------------------------------------------------
(* The normalizer on its own: one raw source record of a provider goes     *)
(* through the decode and map steps of that provider's fetchDanmaku.       *)

NormProviders == {"bilibili", "iqiyi", "bahamut"}

Some(text) == [has |-> TRUE, v |-> text]

\* <tag>val</tag> when the block carries the tag, nothing when it does not.
Opt(tag, m) == IF m.has THEN <<[tag |-> tag, val |-> m.v]>> ELSE <<>>

Bullet(content, name, showTime, color, position) ==
    Opt("content", content) \o Opt("name", name) \o Opt("showTime", showTime)
    \o Opt("color", color) \o Opt("position", position)

Haha == <<"U54C8", "U54C8", "U54C8">>

BilibiliRecords ==
    [content  : {<<>>, <<"U7B11", "U6B7B">>},
     progress : {0, 250, 1005, 30500, -500},
     color    : {0, 16711680, 16777215},
     position : {-1, 0, 1, 4, 5, 6},
     id       : {42}]

IQiYiRecords ==
    {Bullet(c, n, t, col, pos) :
        c   \in {Undefined, Some(Haha), Some(<<" ">>)},
        n   \in {Undefined, Some(<<"b", "o", "b">>), Some(<<"a", ",", "b">>)},
        t   \in {Undefined, Some(<<"1", "2", ".", "5">>), Some(<<"a", "b", "c">>),
                 Some(<<"-", "3">>)},
        col \in {Undefined, Some(<<"F", "F", "F", "F", "F", "F">>), Some(<<"z", "z">>)},
        pos \in {Undefined, Some(<<"0">>), Some(<<"1">>), Some(<<"2">>), Some(<<"3">>),
                 Some(KeyConstructor)}}

BahamutRecords ==
    [text     : {<<"x">>},
     color    : {<<"#", "F", "F", "F", "F", "F", "F">>, <<"#", "f", "f", "0", "0", "0", "0">>},
     position : {0, 1, 2, 3},
     time     : {0, 125, 305},
     userid   : {<<"u", "1">>, <<"a", ",", "b">>}]

RawRecords(p) ==
    IF p = "bilibili" THEN BilibiliRecords
    ELSE IF p = "iqiyi" THEN IQiYiRecords
    ELSE BahamutRecords

\* The comments fetchDanmaku returns for a segment holding the one record r.
NormalizeOne(p, r) ==
    IF p = "bilibili" THEN BilibiliNormalize(<<r>>)
    ELSE IF p = "iqiyi" THEN IQiYiNormalize(<<r>>)
    ELSE BahamutNormalize(<<r>>)

InitNorm ==
    /\ provider \in NormProviders
    /\ rec \in RawRecords(provider)
    /\ out = NoRec
    /\ episode = EpisodeNone
    /\ net = <<>>
    /\ pc = "normalizing"
    /\ info = NoInfo
    /\ plan = <<>>
    /\ work = <<>>
    /\ workers = <<>>
    /\ fetchLog = <<>>
    /\ result = <<>>
    /\ calls = <<>>
    /\ api = NoApi
    /\ bahamut = NoBahamut

Normalize ==
    /\ pc = "normalizing"
    /\ out = NoRec
    /\ out' = [none |-> FALSE, comments |-> NormalizeOne(provider, rec)]
    /\ UNCHANGED <<provider, episode, net, pc, info, plan, work, workers, fetchLog,
                   result, rec, calls, api, bahamut>>

NextNorm == Normalize

SpecNorm == InitNorm /\ [][NextNorm]_vars

---------------------------------------------------------------------------
(* Two fetchDanmaku calls under way at once.  The provider objects of the  *)
(* registry are shared by all requests and hold only readonly fields;      *)
(* everything a call works on (the resolved episode, the plan, the queue   *)
(* and the processors of its parallel() invocation) is local to the call.  *)

\* Mutant of QueueOwner: every invocation of parallel() works one queue, the
\* first call's.
QueueOwnerShared(c) == 1

\* The call whose queue the processors of call c pop from: parallel() builds
\* its queue in a local of the invocation, so it is the call's own.
QueueOwner(c) == c

Episodes2(p) ==
    {EpisodeError, EpisodeRec(TRUE, TRUE, Window(p))}
    \cup (IF p = "bilibili" THEN {EpisodeRec(TRUE, TRUE, PoolDuration(p))} ELSE {})

\* The segment answers of one of two calls: every combination for plans of
\* up to two segments, two patterns for the longer ones.
Nets2(n) ==
    IF n <= 2 THEN [1..n -> {"fail", "corrupt", "A", "B"}]
    ELSE {[i \in 1..n |-> IF i % 2 = 1 THEN "A" ELSE "fail"],
          [i \in 1..n |-> IF i = 2 THEN "B" ELSE "empty"]}

\* A call that has just been made.
NewCall(p, e, nt) ==
    [provider |-> p, episode |-> e, net |-> nt, pc |-> "resolving", plan |-> <<>>,
     work |-> <<>>, workers |-> <<>>, fetchLog |-> <<>>, result |-> <<>>]

NewCallsOf(p) ==
    UNION {LET r == FetchEpisodeInfo(p, e)
               n == IF r.ok THEN Len(PlanSegments(p, r.duration)) ELSE 0
           IN  {NewCall(p, e, nt) : nt \in Nets2(n)}
           : e \in Episodes2(p)}

NewCalls == UNION {NewCallsOf(p) : p \in Providers}

Init2 ==
    /\ calls \in [1..2 -> NewCalls]
    /\ provider = "bilibili"
    /\ episode = EpisodeNone
    /\ net = <<>>
    /\ pc = "calling"
    /\ info = NoInfo
    /\ plan = <<>>
    /\ work = <<>>
    /\ workers = <<>>
    /\ fetchLog = <<>>
    /\ result = <<>>
    /\ rec = NoRec
    /\ out = NoRec
    /\ api = NoApi
    /\ bahamut = NoBahamut

CallsUnchanged ==
    UNCHANGED <<provider, episode, net, pc, info, plan, work, workers, fetchLog,
                result, rec, out, api, bahamut>>

\* Call c: await this.fetchEpisodeInfo(episodeId) settles.
CallResolve(c) ==
    /\ calls[c].pc = "resolving"
    /\ LET r == FetchEpisodeInfo(calls[c].provider, calls[c].episode)
           items == WorkItems(PlanSegments(calls[c].provider, r.duration))
           limit == Concurrency(calls[c].provider)
       IN  calls' = [calls EXCEPT ![c] =
               IF ~r.ok THEN [@ EXCEPT !.pc = "rejected"]
               ELSE [@ EXCEPT !.pc = "fetching",
                              !.plan = PlanSegments(calls[c].provider, r.duration),
                              !.workers = InitialWorkers(limit, items),
                              !.work = InitialWork(limit, items),
                              !.fetchLog = InitialLog(limit, items)]]
    /\ CallsUnchanged

\* Call c: processor k's task has returned value.
CallTaskDone(c, k, value) ==
    LET q == QueueOwner(c)
        r == PopNext(calls[c].workers[k], calls[q].work, value)
    IN  calls' = [d \in 1..Len(calls) |->
            LET popped == IF d = q THEN [calls[d] EXCEPT !.work = r.work] ELSE calls[d]
            IN  IF d = c
                THEN [popped EXCEPT !.workers[k] = r.worker,
                                    !.fetchLog = @ \o r.started]
                ELSE popped]

\* Call c: the ofetch of processor k's segment settles.
CallFetchSettle(c, k) ==
    /\ calls[c].pc = "fetching"
    /\ calls[c].workers[k].phase = "fetch"
    /\ LET resp == calls[c].net[calls[c].workers[k].item]
       IN  IF calls[c].provider = "bilibili"
           THEN CallTaskDone(c, k, IF resp = "fail" THEN "undefined" ELSE resp)
           ELSE IF resp = "fail"
                THEN CallTaskDone(c, k, "[]")
                ELSE calls' = [calls EXCEPT ![c].workers[k].phase = "inflate"]
    /\ CallsUnchanged

\* Call c, IQiYi: decompressDanmaku of processor k's buffer settles.
CallInflateSettle(c, k) ==
    /\ calls[c].pc = "fetching"
    /\ calls[c].workers[k].phase = "inflate"
    /\ LET resp == calls[c].net[calls[c].workers[k].item]
       IN  CallTaskDone(c, k, IF resp = "corrupt" THEN "[]" ELSE resp)
    /\ CallsUnchanged

\* Call c: every processor has ended, parallel() resolves and the call
\* filters, decodes and normalizes what it got.
CallFinish(c) ==
    /\ calls[c].pc = "fetching"
    /\ \A k \in 1..Len(calls[c].workers) : calls[c].workers[k].phase = "end"
    /\ LET got == ParallelResults(calls[c].workers)
       IN  calls' = [calls EXCEPT ![c] =
               IF calls[c].provider = "bilibili"
               THEN IF BilibiliDecodeThrows(got)
                    THEN [@ EXCEPT !.pc = "rejected"]
                    ELSE [@ EXCEPT !.pc = "done", !.result = BilibiliComments(got)]
               ELSE [@ EXCEPT !.pc = "done", !.result = IQiYiComments(got)]]
    /\ CallsUnchanged

Next2 ==
    \/ \E c \in 1..Len(calls) : CallResolve(c)
    \/ \E c \in 1..Len(calls) : \E k \in 1..Len(calls[c].workers) : CallFetchSettle(c, k)
    \/ \E c \in 1..Len(calls) : \E k \in 1..Len(calls[c].workers) : CallInflateSettle(c, k)
    \/ \E c \in 1..Len(calls) : CallFinish(c)

Spec2 == Init2 /\ [][Next2]_vars

---------------------------------------------------------------------------
(* The HTTP API: GET /search and GET /danmaku/:id over the registry.       *)

BilibiliName == <<"b", "i", "l", "i", "b", "i", "l", "i">>
BahamutName  == <<"b", "a", "h", "a", "m", "u", "t">>
IQiYiName    == <<"i", "q", "i", "y", "i">>

\* export const providers = [new Bilibili(), new Bahamut(), new IQiYi()]
providers == <<[name |-> BilibiliName], [name |-> BahamutName], [name |-> IQiYiName]>>

\* id.split(':')
RECURSIVE SplitColon(_)
SplitColon(s) ==
    IF \A i \in 1..Len(s) : s[i] # ":" THEN <<s>>
    ELSE LET j == CHOOSE i \in 1..Len(s) :
                      s[i] = ":" /\ \A k \in 1..(i - 1) : s[k] # ":"
         IN  <<SubSeq(s, 1, j - 1)>> \o SplitColon(SubSeq(s, j + 1, Len(s)))

\* const [providerName, episodeId] = id.split(':')
ProviderNameOf(id) == SplitColon(id)[1]
EpisodeIdOf(id) ==
    IF Len(SplitColon(id)) >= 2 THEN Some(SplitColon(id)[2]) ELSE Undefined

\* Mutant of FindProvider: a provider is taken when the requested name is the
\* beginning of its name.
FindProviderByPrefix(registry, name) ==
    LET hits == {i \in 1..Len(registry) :
                    /\ Len(name) <= Len(registry[i].name)
                    /\ SubSeq(registry[i].name, 1, Len(name)) = name}
    IN  IF hits = {} THEN 0 ELSE CHOOSE i \in hits : \A j \in hits : i <= j

\* providers.find(a => a.name === providerName): the index of the first
\* provider of that name, 0 for undefined.
FindProvider(registry, name) ==
    LET hits == {i \in 1..Len(registry) : registry[i].name = name}
    IN  IF hits = {} THEN 0 ELSE CHOOSE i \in hits : \A j \in hits : i <= j

\* What a provider's upstream does for the request: the request fails
\* ("error"), it answers with nothing for the query ("nomatch"), or with
\* data ("match").
Upstreams == {"error", "nomatch", "match"}

\* The media a provider's search maps a matching answer to.
SearchHits(p) ==
    IF p.name = BilibiliName
    THEN <<[provider |-> p.name, title |-> <<"t", "1">>],
           [provider |-> p.name, title |-> <<"t", "2">>]>>
    ELSE <<[provider |-> p.name, title |-> <<"t", "1">>]>>

\* provider.search(keyword): rejects when the search request fails, resolves
\* with [] when the answer holds no result, else with the mapped results.
ProviderSearch(p, upstream) ==
    IF upstream = "error" THEN [threw |-> TRUE, value |-> <<>>]
    ELSE IF upstream = "nomatch" THEN [threw |-> FALSE, value |-> <<>>]
    ELSE [threw |-> FALSE, value |-> SearchHits(p)]

\* Mutant of GuardedSearch: the rejection of provider.search is passed on.
GuardedSearchRethrows(outcome) == outcome

\* try { return await provider.search(keyword) } catch { return [] }
GuardedSearch(outcome) ==
    IF outcome.threw THEN [threw |-> FALSE, value |-> <<>>] ELSE outcome

\* provider.fetchDanmaku(episodeId) as the handler sees it: it rejects or it
\* resolves with a list of comments.
ProviderFetchDanmaku(p, upstream) ==
    IF upstream = "error" THEN [threw |-> TRUE, value |-> <<>>]
    ELSE IF upstream = "nomatch" THEN [threw |-> FALSE, value |-> <<>>]
    ELSE [threw |-> FALSE, value |-> <<[text |-> <<"x">>, by |-> p.name]>>]

\* What is held for a call that has not settled.  In a request's record
\* returned[i] is what the method of provider i settled with and settled[i]
\* what the handler made of it.
NotSettled == [threw |-> FALSE, value |-> <<>>]

\* c.json(body, status)
Json(status, success, body) == [status |-> status, success |-> success, body |-> body]

NoResponse == [status |-> 0, success |-> FALSE, body |-> "none"]

\* The names a request may ask for: the registered ones, a beginning of one,
\* one in another case, and the empty name.
RequestNames ==
    {BilibiliName, BahamutName, IQiYiName, <<"b", "i", "l", "i">>,
     <<"B", "i", "l", "i", "b", "i", "l", "i">>, <<>>}

\* The :id values: a name alone, with ':', with an episode id, and with a
\* further ':' part; undefined when the parameter is absent.
RequestIds ==
    {Undefined}
    \cup {Some(n \o t) : n \in RequestNames,
                         t \in {<<>>, <<":">>, <<":", "7">>, <<":", "7", ":", "8">>}}

RequestKeywords == {Undefined, Some(<<>>), Some(<<"k">>)}

Request(route, keyword, id, upstream) ==
    [route    |-> route,
     keyword  |-> keyword,
     id       |-> id,
     upstream |-> upstream,
     registry |-> providers,
     at       |-> "received",
     invoked  |-> <<>>,
     pending  |-> {},
     returned |-> [i \in 1..Len(providers) |-> NotSettled],
     settled  |-> [i \in 1..Len(providers) |-> NotSettled],
     response |-> NoResponse]

InitApi ==
    /\ api \in {Request("search", k, Undefined, u) :
                    k \in RequestKeywords, u \in [1..Len(providers) -> Upstreams]}
               \cup {Request("danmaku", Undefined, i, u) :
                    i \in RequestIds, u \in [1..Len(providers) -> Upstreams]}
    /\ provider = "bilibili"
    /\ episode = EpisodeNone
    /\ net = <<>>
    /\ pc = "serving"
    /\ info = NoInfo
    /\ plan = <<>>
    /\ work = <<>>
    /\ workers = <<>>
    /\ fetchLog = <<>>
    /\ result = <<>>
    /\ rec = NoRec
    /\ out = NoRec
    /\ calls = <<>>
    /\ bahamut = NoBahamut

ApiUnchanged ==
    UNCHANGED <<provider, episode, net, pc, info, plan, work, workers, fetchLog,
                result, rec, out, calls, bahamut>>

\* GET /search up to its await: without a keyword it answers 400, otherwise
\* providers.map starts the guarded search of every provider in turn.
SearchHandler ==
    /\ api.route = "search"
    /\ api.at = "received"
    /\ IF ~api.keyword.has \/ api.keyword.v = <<>>
       THEN api' = [api EXCEPT !.at = "responded",
                               !.response = Json(400, FALSE, "Missing search query")]
       ELSE api' = [api EXCEPT !.at = "awaiting",
                               !.invoked = [i \in 1..Len(api.registry) |-> i],
                               !.pending = 1..Len(api.registry)]
    /\ ApiUnchanged

\* The guarded search of provider i settles.
SearchSettle(i) ==
    /\ api.route = "search"
    /\ api.at = "awaiting"
    /\ i \in api.pending
    /\ api' = [api EXCEPT
           !.pending = @ \ {i},
           !.returned[i] = ProviderSearch(api.registry[i], api.upstream[i]),
           !.settled[i] = GuardedSearch(ProviderSearch(api.registry[i], api.upstream[i]))]
    /\ ApiUnchanged

\* Promise.all settles and the handler answers: with the flattened results
\* once every guarded search has resolved, and with the framework's 500 as
\* soon as one has rejected.
SearchRespond ==
    /\ api.route = "search"
    /\ api.at = "awaiting"
    /\ IF \E i \in 1..Len(api.registry) : api.settled[i].threw
       THEN api' = [api EXCEPT !.at = "responded",
                               !.response = Json(500, FALSE, "Internal Server Error")]
       ELSE /\ api.pending = {}
            /\ api' = [api EXCEPT
                   !.at = "responded",
                   !.response = Json(200, TRUE,
                       Flat([i \in 1..Len(api.registry) |-> api.settled[i].value]))]
    /\ ApiUnchanged

\* GET /danmaku/:id up to its await: 400 without an id or without one of its
\* two parts, 404 when no provider has the name, otherwise fetchDanmaku of the
\* provider found is called.
DanmakuHandler ==
    /\ api.route = "danmaku"
    /\ api.at = "received"
    /\ IF ~api.id.has \/ api.id.v = <<>>
       THEN api' = [api EXCEPT !.at = "responded",
                               !.response = Json(400, FALSE, "Missing episode ID")]
       ELSE IF \/ ProviderNameOf(api.id.v) = <<>>
               \/ ~EpisodeIdOf(api.id.v).has
               \/ EpisodeIdOf(api.id.v).v = <<>>
       THEN api' = [api EXCEPT !.at = "responded",
                               !.response = Json(400, FALSE, "Invalid episode ID format")]
       ELSE LET found == FindProvider(api.registry, ProviderNameOf(api.id.v))
            IN  IF found = 0
                THEN api' = [api EXCEPT !.at = "responded",
                                        !.response = Json(404, FALSE, "Provider not found")]
                ELSE api' = [api EXCEPT !.at = "awaiting", !.invoked = <<found>>,
                                        !.pending = {found}]
    /\ ApiUnchanged

\* fetchDanmaku settles: its list is answered as data, its rejection is
\* caught and answered with 500.
DanmakuSettle ==
    /\ api.route = "danmaku"
    /\ api.at = "awaiting"
    /\ LET i == api.invoked[1]
           r == ProviderFetchDanmaku(api.registry[i], api.upstream[i])
       IN  api' = [api EXCEPT
               !.at = "responded",
               !.pending = {},
               !.returned[i] = r,
               !.settled[i] = r,
               !.response = IF r.threw THEN Json(500, FALSE, "Failed to get danmaku")
                            ELSE Json(200, TRUE, r.value)]
    /\ ApiUnchanged

NextApi ==
    \/ SearchHandler
    \/ \E i \in 1..Len(providers) : SearchSettle(i)
    \/ SearchRespond
    \/ DanmakuHandler
    \/ DanmakuSettle

SpecApi == InitApi /\ [][NextApi]_vars

---------------------------------------------------------------------------
(* Bahamut.search: one search request, then the series details of the hits *)
(* fetched through parallel().                                             *)

BahamutConcurrency == 3

\* Search hit i of the answer's anime list.
Hit(i) == [video_sn |-> i, title |-> <<"t">> \o Digits(i)]

\* What the search request does: it fails ("error"), its answer has no anime
\* list ("noanime"), or it lists n hits.
SearchAnswers ==
    {[kind |-> "error", n |-> 0], [kind |-> "noanime", n |-> 0]}
    \cup {[kind |-> "anime", n |-> n] : n \in 0..(BahamutConcurrency + PoolExtra)}

\* searchResponse.anime ?? []
SearchResults(answer) == [i \in 1..answer.n |-> Hit(i)]

\* The episodes the series of hit i has, and a list that is not its current
\* season's.
SeriesEpisodes(i) ==
    [j \in 1..(1 + (i % 2)) |-> [episode |-> j, videoSn |-> 10 * i + j]]

OtherEpisodes == <<[episode |-> 9, videoSn |-> 999]>>

\* What the series-detail request of a hit does: it fails ("fail"), or it
\* answers without data ("nodata"), with the episodes under the key of
\* video.type, here 0 ("byType"), with no video and the episodes under the
\* key of anime.episodeIndex ("byIndex"), or with a video.type that is no key
\* of anime.episodes ("nokey").
DetailKinds == {"fail", "nodata", "byType", "byIndex", "nokey"}

NoDetail ==
    [hasData |-> FALSE, hasVideo |-> FALSE, type |-> 0, episodeIndex |-> 0,
     episodes |-> <<>>]

\* The ResponseSeries of hit i; anime.episodes is keyed 0 and 1, held here as
\* the function 0 :> list, 1 :> list.
DetailAnswer(kind, i) ==
    IF kind = "byType"
    THEN [hasData |-> TRUE, hasVideo |-> TRUE, type |-> 0, episodeIndex |-> 1,
          episodes |-> [key \in 0..1 |-> IF key = 0 THEN SeriesEpisodes(i)
                                          ELSE OtherEpisodes]]
    ELSE IF kind = "byIndex"
    THEN [hasData |-> TRUE, hasVideo |-> FALSE, type |-> 0, episodeIndex |-> 1,
          episodes |-> [key \in 0..1 |-> IF key = 1 THEN SeriesEpisodes(i)
                                          ELSE OtherEpisodes]]
    ELSE IF kind = "nokey"
    THEN [hasData |-> TRUE, hasVideo |-> TRUE, type |-> 2, episodeIndex |-> 1,
          episodes |-> [key \in 0..1 |-> OtherEpisodes]]
    ELSE NoDetail

\* await ofetch<ResponseSeries>(...) of hit item
DetailFetch(kind, item) ==
    IF kind = "fail" THEN [threw |-> TRUE, defined |-> FALSE, detail |-> NoDetail]
    ELSE [threw |-> FALSE, defined |-> TRUE,
          detail |-> DetailAnswer(kind, item.video_sn)]

\* Mutant of GuardedDetail: the failure of the detail request is passed on.
GuardedDetailRethrows(outcome) == outcome

\* try { return await ofetch(...) } catch { return }
GuardedDetail(outcome) ==
    IF outcome.threw THEN [threw |-> FALSE, defined |-> FALSE, detail |-> NoDetail]
    ELSE outcome

\* extractEpisodes(detail): Object.values of the list under the key
\* video?.type ?? anime?.episodeIndex, nothing when any part is absent.
ExtractEpisodes(d) ==
    IF ~d.defined \/ ~d.detail.hasData THEN <<>>
    ELSE LET key == IF d.detail.hasVideo THEN d.detail.type ELSE d.detail.episodeIndex
         IN  IF key \in DOMAIN d.detail.episodes THEN d.detail.episodes[key] ELSE <<>>

\* ep => ({ id: String(ep.videoSn), title: `第 ${ep.episode} 集`, ordinal })
MapEpisode(ep) ==
    [id      |-> IntToText(ep.videoSn),
     title   |-> <<"U7B2C", " ">> \o IntToText(ep.episode) \o <<" ", "U96C6">>,
     ordinal |-> ep.episode]

\* searchResults.map((item, index) => ({ title, provider, episodes }))
SearchEntries(hits, seriesDetails) ==
    [i \in 1..Len(hits) |->
        [title    |-> hits[i].title,
         provider |-> BahamutName,
         episodes |-> LET eps == ExtractEpisodes(seriesDetails[i])
                      IN  [j \in 1..Len(eps) |-> MapEpisode(eps[j])]]]

\* The detail answers of n hits: every combination for up to two hits, three
\* of the kinds for more.
DetailNets(n) ==
    IF n <= 2 THEN [1..n -> DetailKinds]
    ELSE [1..n -> {"fail", "byType", "byIndex"}]

InitSearch ==
    /\ \E a \in SearchAnswers : \E ks \in DetailNets(a.n) :
           bahamut = [method |-> "search", answer |-> a, details |-> ks,
                      at |-> "searching", hits |-> <<>>, work |-> <<>>,
                      workers |-> <<>>, fetchLog |-> <<>>, result |-> <<>>]
    /\ provider = "bahamut"
    /\ episode = EpisodeNone
    /\ net = <<>>
    /\ pc = "bahamut"
    /\ info = NoInfo
    /\ plan = <<>>
    /\ work = <<>>
    /\ workers = <<>>
    /\ fetchLog = <<>>
    /\ result = <<>>
    /\ rec = NoRec
    /\ out = NoRec
    /\ calls = <<>>
    /\ api = NoApi

BahamutUnchanged ==
    UNCHANGED <<provider, episode, net, pc, info, plan, work, workers, fetchLog,
                result, rec, out, calls, api>>

\* The search request settles: a failure rejects the search, an answer with
\* no hit returns [], otherwise parallel() is called over the hits and its
\* processors start their first detail request.
SearchRequestSettle ==
    /\ bahamut.method = "search"
    /\ bahamut.at = "searching"
    /\ LET hits  == SearchResults(bahamut.answer)
           items == WorkItems(hits)
       IN  bahamut' =
               IF bahamut.answer.kind = "error" THEN [bahamut EXCEPT !.at = "rejected"]
               ELSE IF Len(hits) = 0 THEN [bahamut EXCEPT !.at = "done"]
               ELSE [bahamut EXCEPT
                        !.at = "fetching",
                        !.hits = hits,
                        !.workers = InitialWorkers(BahamutConcurrency, items),
                        !.work = InitialWork(BahamutConcurrency, items),
                        !.fetchLog = [k \in 1..Len(InitialLog(BahamutConcurrency, items)) |->
                                         InitialLog(BahamutConcurrency, items)[k].video_sn]]
    /\ BahamutUnchanged

\* The detail request of processor k's hit settles and the task returns.
DetailSettle(k) ==
    /\ bahamut.method = "search"
    /\ bahamut.at = "fetching"
    /\ bahamut.workers[k].phase = "fetch"
    /\ LET w == bahamut.workers[k]
           r == PopNext(w, bahamut.work,
                        GuardedDetail(DetailFetch(bahamut.details[w.index], w.item)))
       IN  bahamut' = [bahamut EXCEPT
               !.workers[k] = r.worker,
               !.work = r.work,
               !.fetchLog = @ \o [j \in 1..Len(r.started) |-> r.started[j].video_sn]]
    /\ BahamutUnchanged

\* Every processor has ended: parallel() rejects when a task threw, and
\* otherwise resolves and the search maps the hits to its entries.
SearchFinish ==
    /\ bahamut.method = "search"
    /\ bahamut.at = "fetching"
    /\ \A k \in 1..Len(bahamut.workers) : bahamut.workers[k].phase = "end"
    /\ LET seriesDetails == ParallelResults(bahamut.workers)
       IN  bahamut' =
               IF \E i \in 1..Len(seriesDetails) : seriesDetails[i].threw
               THEN [bahamut EXCEPT !.at = "rejected"]
               ELSE [bahamut EXCEPT !.at = "done",
                                    !.result = SearchEntries(bahamut.hits, seriesDetails)]
    /\ BahamutUnchanged

NextSearch ==
    \/ SearchRequestSettle
    \/ \E k \in 1..Len(bahamut.workers) : DetailSettle(k)
    \/ SearchFinish

SpecSearch == InitSearch /\ [][NextSearch]_vars

---------------------------------------------------------------------------
(* Bahamut.fetchDanmaku: one request, its danmu list mapped to comments.   *)

\* The entries a danmu list may hold; an entry's color may be missing.
DanmuEntries ==
    [text     : {<<"x">>, <<>>},
     color    : {Some(<<"#", "F", "F", "F", "F", "F", "F">>),
                 Some(<<"#", "f", "f", "0", "0", "0", "0">>), Undefined},
     position : {1, 3},
     time     : {305},
     userid   : {<<"u", "1">>}]

RECURSIVE ListsUpTo(_, _)
ListsUpTo(S, n) ==
    IF n = 0 THEN {<<>>}
    ELSE ListsUpTo(S, n - 1)
         \cup {Append(l, e) : l \in {m \in ListsUpTo(S, n - 1) : Len(m) = n - 1}, e \in S}

\* What the danmu request does: it fails ("error"), its answer has no data
\* ("nodata"), its data has no danmu list ("nodanmu"), or it holds a list.
DanmuAnswers ==
    {[kind |-> k, danmu |-> <<>>] : k \in {"error", "nodata", "nodanmu"}}
    \cup {[kind |-> "list", danmu |-> l] : l \in ListsUpTo(DanmuEntries, MaxDanmu)}

\* response.data?.danmu ?? []
DanmuOf(answer) == IF answer.kind = "list" THEN answer.danmu ELSE <<>>

\* formatDanmakuMeta reads danmaku.color.slice(1): a TypeError when the
\* entry has no color.
FormatThrows(d) == ~d.color.has

\* The same entry with its color as the text it is.
WithColor(d) == [d EXCEPT !.color = d.color.v]

InitDanmu ==
    /\ \E a \in DanmuAnswers :
           bahamut = [method |-> "fetchDanmaku", answer |-> a, at |-> "called",
                      requests |-> 0, result |-> <<>>]
    /\ provider = "bahamut"
    /\ episode = EpisodeNone
    /\ net = <<>>
    /\ pc = "bahamut"
    /\ info = NoInfo
    /\ plan = <<>>
    /\ work = <<>>
    /\ workers = <<>>
    /\ fetchLog = <<>>
    /\ result = <<>>
    /\ rec = NoRec
    /\ out = NoRec
    /\ calls = <<>>
    /\ api = NoApi

\* fetchDanmaku is called and sends its request.
DanmuRequest ==
    /\ bahamut.method = "fetchDanmaku"
    /\ bahamut.at = "called"
    /\ bahamut' = [bahamut EXCEPT !.at = "requesting", !.requests = @ + 1]
    /\ BahamutUnchanged

\* The request settles: a failure rejects the call; otherwise an absent or
\* empty list returns [], and the entries are mapped to comments, an entry
\* that makes formatDanmakuMeta throw rejecting the call.
DanmuRequestSettle ==
    /\ bahamut.method = "fetchDanmaku"
    /\ bahamut.at = "requesting"
    /\ LET danmaku == DanmuOf(bahamut.answer)
       IN  bahamut' =
               IF bahamut.answer.kind = "error" THEN [bahamut EXCEPT !.at = "rejected"]
               ELSE IF Len(danmaku) = 0 THEN [bahamut EXCEPT !.at = "done"]
               ELSE IF \E i \in 1..Len(danmaku) : FormatThrows(danmaku[i])
               THEN [bahamut EXCEPT !.at = "rejected"]
               ELSE [bahamut EXCEPT
                        !.at = "done",
                        !.result = BahamutNormalize(
                            [i \in 1..Len(danmaku) |-> WithColor(danmaku[i])])]
    /\ BahamutUnchanged

NextDanmu ==
    \/ DanmuRequest
    \/ DanmuRequestSettle

SpecDanmu == InitDanmu /\ [][NextDanmu]_vars

---------------------------------------------------------------------------
(* What the specification expects of a call, stated from the inputs.       *)

Max(a, b) == IF a > b THEN a ELSE b

Range(f) == {f[i] : i \in DOMAIN f}

\* The canonical comments of one segment answer: none for a failed fetch or an
\* undecodable payload.
SegmentComments(p, resp) ==
    IF resp \in {"fail", "corrupt"} THEN <<>>
    ELSE IF p = "bilibili" THEN BilibiliNormalize(BilibiliElems(resp))
    ELSE IQiYiNormalize(IQiYiBullets(resp))

\* The per-segment comment lists concatenated in ascending segment index.
ExpectedComments ==
    Flat([i \in 1..Len(plan) |-> SegmentComments(provider, net[plan[i]])])

\* ceil(duration / window), duration and window in the provider's unit.
CeilWindows(p, duration) == (duration + Window(p) - 1) \div Window(p)

\* The call has settled after a successful resolution.
SettledAfterResolution == info.ok /\ pc \in {"done", "rejected"}

\* C1: once episode resolution has succeeded, fetchDanmaku never rejects,
\* whatever segment fetch errors and segment decode errors occur afterwards.
C1_NeverRejectsOnceResolved == info.ok => pc # "rejected"

\* C2: with F the set of segments whose fetch fails, the call fetches every
\* planned segment, and returns (never rejects with) exactly the normalized
\* comments of the segments outside F, nothing for the segments in F.
C2_FailedFetchesIsolated ==
    SettledAfterResolution =>
        /\ pc = "done"
        /\ Range(plan) \subseteq Range(fetchLog)
        /\ result = ExpectedComments

\* C3: the number of segment fetches in flight never exceeds the provider's
\* concurrency limit, 3 on Bilibili and 9 on IQiYi.
C3_InFlightBounded ==
    /\ Cardinality(InFlight) <= Concurrency(provider)
    /\ provider = "bilibili" => Cardinality(InFlight) <= 3
    /\ provider = "iqiyi" => Cardinality(InFlight) <= 9

\* C3 witness: on IQiYi, with more segments planned than the limit, the pool
\* is full (9 fetches in flight) again after a fetch settled and the freed
\* processor started the next segment.
C3_Witness ==
    /\ provider = "iqiyi"
    /\ pc = "fetching"
    /\ Len(plan) > Concurrency(provider)
    /\ Cardinality(InFlight) = 9
    /\ Len(fetchLog) > Concurrency(provider)

\* C4: the list fetchDanmaku returns is the concatenation of the per-segment
\* comment lists in ascending segment index, failed segments omitted, each
\* segment's comments in decoded order, whatever the completion order was.
C4_ResultInSegmentOrder == pc = "done" => result = ExpectedComments

\* C4 witness: a call returned comments of two segments whose results were
\* collected out of index order.
C4_Witness ==
    /\ pc = "done"
    /\ Len(plan) >= 2
    /\ net[1] = "A" /\ net[2] = "B"
    /\ LET flat == Flat([k \in 1..Len(workers) |-> workers[k].results])
       IN  \E i, j \in 1..Len(flat) : i < j /\ flat[i].index > flat[j].index

\* C5: for every resolved duration the plan is [1..count] with
\* count = max(1, ceil(duration / window)).
C5_PlanIsClampedCeil ==
    info.ok => plan = ArrayFrom1(Max(1, CeilWindows(provider, info.duration)))

\* C6: when the resolved duration is 0 the plan still holds segment 1 and
\* segment 1 is fetched.
C6_ZeroDurationFetchesSegment1 ==
    (info.ok /\ info.duration = 0) =>
        /\ 1 \in Range(plan)
        /\ 1 \in Range(fetchLog)

\* The lookup yields no usable record as C7 words it: request error, record
\* absent, or the id or the duration absent.
C7_Unusable(ep) == ep.kind # "rec" \/ ~ep.hasId \/ ~ep.hasDur

\* C7 as stated: with no usable record the call rejects and no segment fetch
\* is ever started; resolution completes before the first segment fetch.
C7_RejectsWithoutUsableRecord ==
    /\ (pc # "resolving" /\ C7_Unusable(episode)) =>
            (pc = "rejected" /\ fetchLog = <<>>)
    /\ fetchLog # <<>> => (pc # "resolving" /\ info.ok)

\* The lookups the code rejects: request error or record absent on both
\* providers, and on Bilibili a record whose cid or duration is absent or 0.
C7_Rejected(p, ep) ==
    \/ ep.kind # "rec"
    \/ p = "bilibili" /\ (~ep.hasId \/ ~ep.hasDur \/ ep.dur = 0)

\* C7 amended: the call rejects, with no segment fetch ever started, exactly
\* when the request fails, the record is absent or, on Bilibili, the cid or
\* the duration is absent or 0; an IQiYi record without tvId or durationSec
\* resolves with the episode id and duration 0; resolution completes before
\* the first segment fetch.
C7_RejectsOnlyUnresolvable ==
    /\ (pc # "resolving" /\ C7_Rejected(provider, episode)) =>
            (pc = "rejected" /\ ~info.ok /\ fetchLog = <<>> /\ workers = <<>>)
    /\ (pc # "resolving" /\ ~C7_Rejected(provider, episode)) =>
            /\ info.ok
            /\ info.duration = (IF episode.hasDur THEN episode.dur ELSE 0)
            /\ (~episode.hasId) => info.id = "episodeId"
    /\ fetchLog # <<>> => (pc # "resolving" /\ info.ok)

\* C7 witness: a Bilibili record without cid made the call reject.
C7_Witness ==
    /\ provider = "bilibili"
    /\ episode.kind = "rec" /\ ~episode.hasId /\ episode.hasDur
    /\ pc = "rejected"

---------------------------------------------------------------------------
(* What the specification expects of the normalizer.                       *)

Normalized == pc = "normalizing" /\ ~out.none

\* C8: the meta of every returned comment splits on ',' into exactly 4 fields.
C8_MetaHasFourFields ==
    Normalized => \A i \in 1..Len(out.comments) : FieldCount(out.comments[i].meta) = 4

\* The position the platform tables of C9 give a code (as text): Bilibili
\* {4->4, 5->5}, IQiYi {0->1, 1->5, 2->4}, Bahamut {1->5, 2->4}, others 1.
C9_Table(p, code) ==
    IF p = "bilibili" THEN (IF code = <<"4">> THEN <<"4">>
                            ELSE IF code = <<"5">> THEN <<"5">> ELSE <<"1">>)
    ELSE IF p = "iqiyi" THEN (IF code = <<"1">> THEN <<"5">>
                              ELSE IF code = <<"2">> THEN <<"4">> ELSE <<"1">>)
    ELSE (IF code = <<"1">> THEN <<"5">>
          ELSE IF code = <<"2">> THEN <<"4">> ELSE <<"1">>)

\* The position code the source record carries, as text.
C9_Code(p, r) ==
    IF p = "iqiyi" THEN IQiYiParseBullet(r).position ELSE IntToText(r.position)

\* C9: the position field of meta is one of 1, 4, 5, as the platform's table
\* maps the record's code, every code outside the table mapped to 1.
C9_PositionTotal ==
    Normalized =>
        \A i \in 1..Len(out.comments) :
            LET pos == SplitComma(out.comments[i].meta)[2]
            IN  /\ pos \in {<<"1">>, <<"4">>, <<"5">>}
                /\ pos = C9_Table(provider, C9_Code(provider, rec))

\* C10: in the IQiYi decoder an absent tag falls back to its default, so the
\* canonical output uses text '', user 'iqiyi', time 0.00, color 16777215 and
\* position 1 for the absent content, name, showTime, color and position; the
\* block {content U+54C8 x3, position 2, showTime 12.5} yields the meta
\* 12.50,4,16777215,iqiyi.
C10_IQiYiDefaults ==
    (Normalized /\ provider = "iqiyi") =>
        LET c == out.comments[1]
            f == SplitComma(c.meta)
        IN  /\ Len(out.comments) = 1
            /\ ~GetTag(rec, "content").has => c.text = <<>>
            /\ ~GetTag(rec, "showTime").has => f[1] = <<"0", ".", "0", "0">>
            /\ ~GetTag(rec, "position").has => f[2] = <<"1">>
            /\ ~GetTag(rec, "color").has => f[3] = <<"1", "6", "7", "7", "7", "2", "1", "5">>
            /\ ~GetTag(rec, "name").has => f[Len(f)] = <<"i", "q", "i", "y", "i">>
            /\ rec = Bullet(Some(Haha), Undefined, Some(<<"1", "2", ".", "5">>),
                            Undefined, Some(<<"2">>))
                  => c = [text |-> Haha,
                          meta |-> <<"1", "2", ".", "5", "0", ",", "4", ",",
                                     "1", "6", "7", "7", "7", "2", "1", "5", ",",
                                     "i", "q", "i", "y", "i">>]

\* A non-empty text of decimal digits.
IsDecimalInteger(t) == Len(t) > 0 /\ AllDigits(t)

White == <<"1", "6", "7", "7", "7", "2", "1", "5">>

\* Whether the record carries white in its platform's encoding: IQiYi
\* 'FFFFFF', Bahamut '#FFFFFF', Bilibili 16777215.
C11_CarriesWhite(p, r) ==
    IF p = "bilibili" THEN r.color = 16777215
    ELSE IF p = "iqiyi" THEN GetTag(r, "color") = Some(<<"F", "F", "F", "F", "F", "F">>)
    ELSE r.color = <<"#", "F", "F", "F", "F", "F", "F">>

\* C11: for every color value a source record carries, the color field of
\* meta is a decimal integer, and white in the hex encodings of IQiYi and
\* Bahamut and in the decimal encoding of Bilibili all give 16777215.
C11_ColorIsDecimalInteger ==
    Normalized =>
        \A i \in 1..Len(out.comments) :
            LET col == SplitComma(out.comments[i].meta)[3]
            IN  /\ IsDecimalInteger(col)
                /\ C11_CarriesWhite(provider, rec) => col = White

\* A non-negative decimal number with exactly 2 digits after the point.
IsTwoDecimals(t) ==
    /\ Len(t) >= 4
    /\ t[Len(t) - 2] = "."
    /\ \A i \in 1..Len(t) : i # Len(t) - 2 => IsDigit(t[i])

\* C12: the time field of meta of every returned comment is a non-negative
\* decimal number with exactly 2 digits after the point, whatever the source
\* time is (missing, non-numeric and negative values included).
C12_TimeIsNonNegativeTwoDecimals ==
    Normalized =>
        \A i \in 1..Len(out.comments) :
            IsTwoDecimals(SplitComma(out.comments[i].meta)[1])

\* How many times segment index i was passed to the segment fetch.
C13_Fetches(i) == Cardinality({j \in 1..Len(fetchLog) : fetchLog[j] = i})

\* C13: within one call only planned segment indices are fetched, none more
\* than once (a failed segment is not fetched again), and when the call
\* settles every planned index has been fetched exactly once.
C13_EachSegmentFetchedOnce ==
    /\ \A j \in 1..Len(fetchLog) : fetchLog[j] \in Range(plan)
    /\ \A i \in Range(plan) : C13_Fetches(i) <= 1
    /\ pc \in {"done", "rejected"} => \A i \in Range(plan) : C13_Fetches(i) = 1

\* A call over more segments than the limit has returned although a segment
\* fetch failed.
C13_Witness ==
    /\ pc = "done"
    /\ Len(plan) > Concurrency(provider)
    /\ \E i \in 1..Len(plan) : net[i] = "fail"
    /\ Len(fetchLog) = Len(plan)

\* The text of h hundredths with two digits after the point, signed when neg.
C14_TwoDecimals(neg, h) ==
    (IF neg THEN <<"-">> ELSE <<>>)
    \o Digits(h \div 100) \o <<".">> \o Digits((h % 100) \div 10) \o Digits(h % 10)

\* Whether t is ms milliseconds in seconds to two decimals: the text of a
\* number of hundredths no farther than half a hundredth from ms / 1000.
C14_IsSecondsOf(t, ms) ==
    LET a == IF ms < 0 THEN 0 - ms ELSE ms
    IN  \E h \in {a \div 10, a \div 10 + 1} :
            /\ 10 * h - a <= 5
            /\ a - 10 * h <= 5
            /\ t = C14_TwoDecimals(ms < 0, h)

\* The record of the example of C14.
C14_Example ==
    [content |-> <<"U7B11", "U6B7B">>, progress |-> 30500, color |-> 16711680,
     position |-> 5, id |-> 42]

C14_ExampleMeta ==
    <<"3", "0", ".", "5", "0", ",", "5", ",",
      "1", "6", "7", "1", "1", "6", "8", "0", ",", "4", "2">>

\* C14: a decoded Bilibili record with non-empty content becomes one comment
\* with text = content and meta = progress/1000 to two decimals, the position
\* mapped by {4->4, 5->5} and otherwise 1, the color in decimal and the id;
\* the example record yields the meta 30.50,5,16711680,42.
C14_BilibiliCanonical ==
    (Normalized /\ provider = "bilibili" /\ rec.content # <<>>) =>
        LET c == out.comments[1]
            f == SplitComma(c.meta)
        IN  /\ Len(out.comments) = 1
            /\ c.text = rec.content
            /\ Len(f) = 4
            /\ C14_IsSecondsOf(f[1], rec.progress)
            /\ f[2] = C9_Table("bilibili", IntToText(rec.position))
            /\ f[3] = IntToText(rec.color)
            /\ f[4] = IntToText(rec.id)
            /\ rec = C14_Example => c.meta = C14_ExampleMeta

\* The example record of C14 has been normalized.
C14_Witness ==
    /\ Normalized
    /\ provider = "bilibili"
    /\ rec = C14_Example
    /\ out.comments = <<[text |-> C14_Example.content, meta |-> C14_ExampleMeta]>>

\* The segments of the plan whose fetch succeeded.
C15_Fetched == {i \in Range(plan) : net[i] # "fail"}

\* The decoded records with non-empty content of segment i, as positions in
\* the segment's decoded list.
C15_NonEmpty(i) ==
    {n \in 1..Len(BilibiliElems(net[i])) : BilibiliElems(net[i])[n].content # <<>>}

\* How many returned comments carry the text and the id of record e.
C15_Occurrences(e) ==
    Cardinality({j \in 1..Len(result) :
                    /\ result[j].text = e.content
                    /\ LET f == SplitComma(result[j].meta)
                       IN  f[Len(f)] = IntToText(e.id)})

\* C15: no comment Bilibili's fetchDanmaku returns has an empty text, and a
\* decoded record with non-empty content appears in the result once for each
\* successfully fetched segment that carries it, the result holding nothing
\* else.
C15_BilibiliFiltersEmptyContent ==
    (pc = "done" /\ provider = "bilibili") =>
        /\ \A j \in 1..Len(result) : result[j].text # <<>>
        /\ \A i \in C15_Fetched : \A n \in C15_NonEmpty(i) :
               C15_Occurrences(BilibiliElems(net[i])[n])
                   = Cardinality({k \in C15_Fetched : net[k] = net[i]})
        /\ Len(result)
               = Len(Flat([i \in 1..Len(plan) |->
                     IF plan[i] \in C15_Fetched
                     THEN [n \in 1..Cardinality(C15_NonEmpty(plan[i])) |-> n]
                     ELSE <<>>]))

\* A Bilibili call returned although a fetched segment held a record with
\* empty content and another segment failed.
C15_Witness ==
    /\ pc = "done"
    /\ provider = "bilibili"
    /\ \E i \in Range(plan) : net[i] = "B"
    /\ \E i \in Range(plan) : net[i] = "fail"
    /\ \E j \in 1..Len(result) : result[j].text = <<"b", "1">>

\* How many bulletInfo blocks the i-th planned segment contributes: those of
\* its text when it was fetched and decompressed to a non-empty text.
C20_Blocks(i) ==
    IF net[plan[i]] \in {"fail", "corrupt", "empty"} THEN 0
    ELSE Len(IQiYiBullets(net[plan[i]]))

\* The number of blocks of the planned segments before the i-th.
RECURSIVE C20_Before(_)
C20_Before(i) == IF i <= 1 THEN 0 ELSE C20_Before(i - 1) + C20_Blocks(i - 1)

\* C20: the list IQiYi's fetchDanmaku returns holds, for each segment fetched
\* and decompressed to a non-empty text, one comment per bulletInfo block of
\* that segment, a block without content included with text '', and nothing
\* for a segment that failed or decompressed to the empty text.
C20_IQiYiRetainsEveryBlock ==
    (pc = "done" /\ provider = "iqiyi") =>
        /\ Len(result) = C20_Before(Len(plan) + 1)
        /\ \A i \in 1..Len(plan) : \A n \in 1..C20_Blocks(i) :
               LET content == GetTag(IQiYiBullets(net[plan[i]])[n], "content")
               IN  result[C20_Before(i) + n].text
                       = IF content.has THEN content.v ELSE <<>>

\* An IQiYi call returned a comment with text '' for a block without content,
\* beside a failed segment and one that decompressed to the empty text.
C20_Witness ==
    /\ pc = "done"
    /\ provider = "iqiyi"
    /\ \E i \in Range(plan) : net[i] = "B"
    /\ \E i \in Range(plan) : net[i] = "fail"
    /\ \E i \in Range(plan) : net[i] = "empty"
    /\ \E j \in 1..Len(result) : result[j].text = <<>>

\* Some segment request of the call is never answered.
C17_Hung == \E i \in DOMAIN net : net[i] = "hang"

\* Every planned segment has been started and every processor has ended but
\* the one that waits for the unanswered request.
C17_OnlyHungSlotBlocked ==
    /\ pc = "fetching"
    /\ Len(work) = 0
    /\ Range(fetchLog) = Range(plan)
    /\ \A k \in 1..Len(workers) :
           \/ workers[k].phase = "end"
           \/ workers[k].phase = "fetch" /\ net[workers[k].item] = "hang"

\* Where the call comes to rest: settled when every segment request settles,
\* with only the slot of the unanswered request blocked otherwise.
C17_AtRest ==
    IF C17_Hung THEN C17_OnlyHungSlotBlocked ELSE pc \in {"done", "rejected"}

\* C17: when episode resolution and every segment request settle, the call
\* settles in the end; when one segment request never settles, every other
\* planned segment is still started and worked off, only the slot of the
\* unanswered request stays blocked, and the call never settles.
C17_SettlesUnlessFetchHangs ==
    /\ <>C17_AtRest
    /\ [](C17_Hung => pc \notin {"done", "rejected"})

\* A call over more segments than the limit is left with one blocked slot:
\* the unanswered request was started first and all other segments are done.
C17_Witness ==
    /\ C17_OnlyHungSlotBlocked
    /\ Len(plan) > Concurrency(provider)
    /\ net[Len(plan)] = "hang"
    /\ \E k \in 1..Len(workers) : Len(workers[k].results) >= 2

\* What /search must answer: the results of each provider whose search
\* found something, in registry order.
C18_Data ==
    Flat([i \in 1..Len(providers) |->
             IF api.upstream[i] = "match" THEN SearchHits(providers[i]) ELSE <<>>])

\* C18: for a non-empty keyword /search invokes the search of every
\* registered provider, a search that finds nothing resolves with an empty
\* list, and the answer is a success whose data is the per-provider results
\* flattened in registry order, a provider whose search throws contributing
\* nothing and stopping no other provider's results.
C18_SearchAggregates ==
    (api.route = "search" /\ api.keyword.has /\ api.keyword.v # <<>>) =>
        /\ api.at # "received" => api.invoked = [i \in 1..Len(providers) |-> i]
        /\ \A i \in 1..Len(providers) :
               (i \notin api.pending /\ api.at # "received"
                    /\ api.upstream[i] = "nomatch")
                   => api.returned[i] = [threw |-> FALSE, value |-> <<>>]
        /\ api.at = "responded" =>
               /\ api.pending = {}
               /\ api.response = Json(200, TRUE, C18_Data)

\* /search has answered with the results of the first and the last provider
\* although the search of the one between them threw.
C18_Witness ==
    /\ api.route = "search"
    /\ api.at = "responded"
    /\ api.upstream = <<"match", "error", "match">>
    /\ Len(api.response.body) = 3

\* The part of id before the first ':'.
C19_BeforeColon(id) ==
    IF \A i \in 1..Len(id) : id[i] # ":" THEN id
    ELSE SubSeq(id, 1, (CHOOSE i \in 1..Len(id) :
                            id[i] = ":" /\ \A k \in 1..(i - 1) : id[k] # ":") - 1)

\* The registered providers whose name is exactly the part of id before ':'.
C19_Named ==
    {i \in 1..Len(providers) : providers[i].name = C19_BeforeColon(api.id.v)}

C19_WitnessNotFound ==
    /\ api.route = "danmaku"
    /\ api.at = "responded"
    /\ api.id = Some(<<"b", "i", "l", "i", ":", "7">>)
    /\ api.invoked = <<>>
    /\ api.response.status = 404

\* What a call of provider p returns when it runs alone against the episode
\* answer e and the segment answers nt.
C16_Alone(p, e, nt) ==
    LET r  == FetchEpisodeInfo(p, e)
        pl == PlanSegments(p, r.duration)
    IN  IF ~r.ok THEN [pc |-> "rejected", result |-> <<>>]
        ELSE IF p = "bilibili" /\ \E i \in 1..Len(pl) : nt[pl[i]] = "corrupt"
        THEN [pc |-> "rejected", result |-> <<>>]
        ELSE [pc |-> "done",
              result |-> Flat([i \in 1..Len(pl) |-> SegmentComments(p, nt[pl[i]])])]

\* The single call settles as C16_Alone says.
C16_AloneIsTheSingleCall ==
    pc \in {"done", "rejected"} =>
        [pc |-> pc, result |-> result] = C16_Alone(provider, episode, net)

\* The segment fetches of call c in flight.
C16_InFlight(c) ==
    {k \in 1..Len(calls[c].workers) : calls[c].workers[k].phase = "fetch"}

\* C16: of two calls under way at once each fetches only its own planned
\* segments, none twice, keeps at most its own limit of fetches in flight,
\* and settles with what it returns when run alone against the same answers.
C16_CallsIndependent ==
    \A c \in 1..Len(calls) :
        /\ Cardinality(C16_InFlight(c)) <= Concurrency(calls[c].provider)
        /\ \A j \in 1..Len(calls[c].fetchLog) :
               /\ calls[c].fetchLog[j] \in Range(calls[c].plan)
               /\ \A i \in 1..Len(calls[c].fetchLog) :
                      calls[c].fetchLog[i] = calls[c].fetchLog[j] => i = j
        /\ calls[c].pc \in {"done", "rejected"} =>
               [pc |-> calls[c].pc, result |-> calls[c].result]
                   = C16_Alone(calls[c].provider, calls[c].episode, calls[c].net)

\* Two Bilibili calls over more segments than the limit and different
\* answers: the first has returned its comments while the second, with its
\* full limit of fetches in flight, is still under way.
C16_Witness ==
    /\ Len(calls) = 2
    /\ calls[1].provider = "bilibili" /\ calls[2].provider = "bilibili"
    /\ Len(calls[1].plan) > BilibiliConcurrency
    /\ calls[1].net # calls[2].net
    /\ calls[1].pc = "done" /\ Len(calls[1].result) > 0
    /\ calls[2].pc = "fetching"
    /\ Cardinality(C16_InFlight(2)) = BilibiliConcurrency

\* The episodes entry i must carry: those of the series of hit i when its
\* detail request answered with them, none otherwise.
C21_Episodes(i) ==
    IF bahamut.details[i] \in {"byType", "byIndex"}
    THEN [j \in 1..(1 + (i % 2)) |->
             [id |-> IntToText(10 * i + j),
              title |-> <<"U7B2C", " ">> \o IntToText(j) \o <<" ", "U96C6">>,
              ordinal |-> j]]
    ELSE <<>>

\* The detail requests of the search in flight.
C21_InFlight ==
    {k \in 1..Len(bahamut.workers) : bahamut.workers[k].phase = "fetch"}

\* C21: once the search request has listed its hits, Bahamut.search keeps at
\* most 3 detail requests in flight, does not reject whichever detail
\* requests fail, and returns one entry per hit in the order of the hits,
\* entry i with the episodes of the detail answer of hit i and with none
\* when that request failed, whatever the completion order.
C21_SearchEntryPerHit ==
    (bahamut.method = "search" /\ bahamut.answer.kind = "anime") =>
        /\ Cardinality(C21_InFlight) <= 3
        /\ bahamut.at # "rejected"
        /\ bahamut.at = "done" =>
               /\ Len(bahamut.result) = bahamut.answer.n
               /\ \A i \in 1..bahamut.answer.n :
                      /\ bahamut.result[i].title = <<"t">> \o IntToText(i)
                      /\ bahamut.result[i].episodes = C21_Episodes(i)

\* A search over more hits than the limit has returned although detail
\* requests failed, the details having come in out of hit order.
C21_Witness ==
    /\ bahamut.method = "search"
    /\ bahamut.at = "done"
    /\ bahamut.answer.n > BahamutConcurrency
    /\ bahamut.details[1] = "byType" /\ bahamut.details[2] = "fail"
    /\ bahamut.details[3] = "byIndex"
    /\ Len(bahamut.result[1].episodes) = 2 /\ Len(bahamut.result[2].episodes) = 0
    /\ LET flat == Flat([k \in 1..Len(bahamut.workers) |-> bahamut.workers[k].results])
       IN  \E i, j \in 1..Len(flat) : i < j /\ flat[i].index > flat[j].index

\* What a call that returned must have returned: one comment per entry of
\* the danmu list in its order, with the entry's text and user id.
C22_OnePerEntry ==
    LET danmu == IF bahamut.answer.kind = "list" THEN bahamut.answer.danmu ELSE <<>>
    IN  /\ Len(bahamut.result) = Len(danmu)
        /\ \A i \in 1..Len(danmu) :
               LET f == SplitComma(bahamut.result[i].meta)
               IN  /\ bahamut.result[i].text = danmu[i].text
                   /\ f[1] = <<"3", "0", ".", "5", "0">>
                   /\ f[2] = C9_Table("bahamut", IntToText(danmu[i].position))
                   /\ f[Len(f)] = danmu[i].userid

\* C22: Bahamut.fetchDanmaku sends a single request, rejects only if that
\* request fails, and otherwise returns one canonical comment per entry of
\* the answer's danmu list in its order, the empty list when the data or the
\* list is absent or empty.
C22_SingleRequestRejectsOnlyOnFailure ==
    bahamut.method = "fetchDanmaku" =>
        /\ bahamut.requests <= 1
        /\ bahamut.at = "rejected" => bahamut.answer.kind = "error"
        /\ bahamut.at = "done" => C22_OnePerEntry

\* The same with rejection allowed for a list holding an entry without
\* color: what the call does for every modelled answer.
C22_HoldsButForMissingColor ==
    bahamut.method = "fetchDanmaku" =>
        /\ bahamut.requests <= 1
        /\ bahamut.at = "rejected" =>
               \/ bahamut.answer.kind = "error"
               \/ \E i \in 1..Len(bahamut.answer.danmu) : ~bahamut.answer.danmu[i].color.has
        /\ bahamut.at = "done" => C22_OnePerEntry
        /\ bahamut.at \in {"done", "rejected"} => bahamut.requests = 1

=============================================================================
